---- MODULE Spec2Model ----
(***************************************************************************)
(* Model of NtAction (src/src/actions/NtAction.C): the MOOSE action that   *)
(* wires the multi-group neutron diffusion objects.  An NtAction is        *)
(* constructed once from its input parameters and its act() method is then *)
(* invoked by the host with _current_task set to one of the eight tasks    *)
(* the action is registered for.  Every call act() makes into the host     *)
(* (_problem, _app, the nonlinear system) is recorded in the table of the  *)
(* host it lands in.                                                       *)
(***************************************************************************)
EXTENDS Integers, Sequences, FiniteSets, TLC

VARIABLES
  cfg,               \* the InputParameters the action was built from
  pc,                \* "new", "ready", "failed" (constructor mooseError), "aborted" (act mooseError)
  task,              \* _current_task of the last act() invocation ("none" before the first)
  emitted,           \* the host calls made by the last act() invocation, in call order
  variables,         \* _problem->addVariable
  kernels,           \* _problem->addKernel
  bcs,               \* _problem->addBoundaryCondition
  ics,               \* _problem->addInitialCondition
  auxVariables,      \* _problem->addAuxVariable
  auxKernels,        \* _problem->addAuxKernel
  varsToCopy,        \* system->addVariableToCopy
  exodusFileRestart, \* _app.setExodusFileRestart
  invocations,       \* number of act() invocations so far
  invoked,           \* history: the tasks act() has been invoked with
  pristine           \* reference: per task, the calls act() makes on the untouched host

vars == <<cfg, pc, task, emitted, variables, kernels, bcs, ics, auxVariables,
          auxKernels, varsToCopy, exodusFileRestart, invocations, invoked, pristine>>

tables == <<variables, kernels, bcs, ics, auxVariables, auxKernels, varsToCopy>>

----------------------------------------------------------------------------
(* Bounds *)

MaxGroups == 2

ManyGroups == 10

MaxInvocations == 2

----------------------------------------------------------------------------
(* Input parameters *)

Tasks == {"add_kernel", "add_bc", "add_variable", "add_ic", "add_aux_variable",
          "add_aux_kernel", "check_copy_nodal_vars", "copy_nodal_vars"}

VacuumBcTypes == {"marshak", "mark", "milne"}

NumGroupsSet == (0..MaxGroups) \cup {ManyGroups}

\* parameters declared without a default value and not required
OptionalParams == {"pre_concs", "temp_scaling", "nt_ic_function", "vacuum_boundaries",
                   "pre_blocks", "block"}

\* the combinations of set optional parameters that are explored
ValidChoices ==
  {v \in SUBSET OptionalParams :
     /\ ("temp_scaling" \in v) = ("nt_ic_function" \in v)
     /\ ("pre_blocks" \in v) = ("block" \in v)}

Configs ==
  {c \in [valid : ValidChoices,
          num_precursor_groups : {6},
          var_name_base : {"group"},
          temperature : {"temp"},
          pre_concs : {<<"pre1", "pre2">>},
          temp_scaling : {100},
          num_groups : NumGroupsSet,
          use_exp_form : BOOLEAN,
          jac_test : BOOLEAN,
          nt_ic_function : {"ic_func"},
          vacuum_boundaries : {<<>>, <<"left", "right">>},
          vacuum_bc_type : VacuumBcTypes,
          create_temperature_var : BOOLEAN,
          init_nts_from_file : BOOLEAN,
          init_temperature_from_file : BOOLEAN,
          dg_for_temperature : BOOLEAN,
          eigen : BOOLEAN,
          account_delayed : BOOLEAN,
          sss2_input : BOOLEAN,
          pre_blocks : {<<"fuel">>},
          block : {<<"fuel", "moder">>},
          eigenvalue_scaling : {1}] :
     \* a parameter that is not set holds the one value the model gives it
     /\ ("vacuum_boundaries" \notin c.valid) => (c.vacuum_boundaries = <<>>)
     /\ (c.vacuum_bc_type # "marshak") => (c.vacuum_boundaries # <<>>)
     \* parameters that no single task reads together are explored together
     /\ c.sss2_input = c.init_nts_from_file
     /\ c.dg_for_temperature = c.use_exp_form
     /\ ("block" \in c.valid) = c.create_temperature_var
     /\ c.eigen = c.jac_test
     /\ c.init_temperature_from_file = ("nt_ic_function" \in c.valid)
     \* the two-digit group count is explored with few optional parameters set
     /\ (c.num_groups = ManyGroups) =>
          (c.valid \subseteq {"block", "pre_blocks"} /\ ~c.account_delayed)}

isParamValid(c, name) == name \notin OptionalParams \/ name \in c.valid

----------------------------------------------------------------------------
(* Moose::stringify on an unsigned int *)

Digit == <<"0", "1", "2", "3", "4", "5", "6", "7", "8", "9">>

RECURSIVE stringify(_)
stringify(n) ==
  IF n < 10 THEN Digit[n + 1] ELSE stringify(n \div 10) \o Digit[(n % 10) + 1]

\* mutant: the group index taken 0-based
varNameZeroBased(c, op) == c.var_name_base \o stringify(op - 1)

varName(c, op) == c.var_name_base \o stringify(op)

RECURSIVE allVarNamesFrom(_, _)
allVarNamesFrom(c, op) ==
  IF op > c.num_groups THEN <<>> ELSE <<varName(c, op)>> \o allVarNamesFrom(c, op + 1)

allVarNames(c) == allVarNamesFrom(c, 1)

----------------------------------------------------------------------------
(* InputParameters helpers *)

NoParams == [k \in {} |-> TRUE]

\* params.set(key) = val, done only when the guard holds
SetIf(p, guard, key, val) == IF guard THEN (key :> val) @@ p ELSE p

\* params.applySpecificParameters(parameters(), {name}): copies a set parameter
applySpecific(p, c, name) == SetIf(p, isParamValid(c, name), name, c[name])

Call(table, type, name, params) ==
  [table |-> table, type |-> type, name |-> name, params |-> params]

----------------------------------------------------------------------------
(* The kernel builders *)

addNtKernel(c, op, var_name, kernel_type, all_var_names) ==
  LET p0 == [variable |-> var_name, group_number |-> op]
      p1 == SetIf(p0, isParamValid(c, "block"), "block", c.block)
      p2 == SetIf(p1, isParamValid(c, "use_exp_form"), "use_exp_form", c.use_exp_form)
      p3 == applySpecific(p2, c, "temperature")
      p4 == IF kernel_type = "InScatter"
              THEN [num_groups |-> c.num_groups, sss2_input |-> c.sss2_input,
                    group_fluxes |-> all_var_names] @@ p3
              ELSE p3
  IN  Call("Kernel", kernel_type, kernel_type \o "_" \o var_name, p4)

addCoupledFissionKernel(c, op, var_name, all_var_names) ==
  LET p0 == [variable |-> var_name, group_number |-> op]
      p1 == SetIf(p0, isParamValid(c, "block"), "block", c.block)
      p2 == SetIf(p1, isParamValid(c, "use_exp_form"), "use_exp_form", c.use_exp_form)
      p3 == applySpecific(p2, c, "temperature")
      p4 == [num_groups |-> c.num_groups, group_fluxes |-> all_var_names,
             account_delayed |-> c.account_delayed,
             eigenvalue_scaling |-> c.eigenvalue_scaling] @@ p3
      p5 == SetIf(p4, c.eigen, "extra_vector_tags", <<"eigen">>)
  IN  Call("Kernel", "CoupledFissionKernel", "CoupledFissionKernel_" \o var_name, p5)

addDelayedNeutronSource(c, op, var_name) ==
  LET p0 == [variable |-> var_name, group_number |-> op]
      p1 == SetIf(p0, isParamValid(c, "pre_blocks"), "block", c.pre_blocks)
      p2 == SetIf(p1, isParamValid(c, "use_exp_form"), "use_exp_form", c.use_exp_form)
      p3 == applySpecific(applySpecific(p2, c, "temperature"), c, "pre_concs")
      p4 == [num_precursor_groups |-> c.num_precursor_groups] @@ p3
  IN  Call("Kernel", "DelayedNeutronSource", "DelayedNeutronSource_" \o var_name, p4)

----------------------------------------------------------------------------
(* Helpers of the base class VariableNotAMooseObjectAction *)

\* addVariable(var_name): registers the nonlinear variable of one group
addVariable(c, var_name) == Call("Variable", "MooseVariable", var_name, NoParams)

\* getSubdomainIDs(): the ids of the blocks named by "block", empty when unset
getSubdomainIDs(c) == IF isParamValid(c, "block") THEN c.block ELSE <<>>

----------------------------------------------------------------------------
(* One iteration of the group loop of act(), split at the branches *)

Seq1(guard, call) == IF guard THEN <<call>> ELSE <<>>

\* lines 104-114: the calls on the system to copy into
copyGroupCalls(c, t, var_name) ==
  Seq1(c.init_nts_from_file /\ t = "copy_nodal_vars",
       [table |-> "VariableToCopy", dest |-> var_name, source |-> var_name,
        timestep |-> "LATEST"])

\* mutant: the restart flag is raised whatever the task
restartGroupAnyTask(c, t) == c.init_nts_from_file

\* lines 104-108: whether _app.setExodusFileRestart(true) is called
restartGroup(c, t) == c.init_nts_from_file /\ t = "check_copy_nodal_vars"

\* lines 120-123
variableCalls(c, t, var_name) == Seq1(t = "add_variable", addVariable(c, var_name))

\* mutant: the eigen test is dropped
timeDerivativeAlways(c) == TRUE

\* line 128: the time derivative is set up unless this is an eigen simulation
timeDerivativeWanted(c) == ~c.eigen

\* mutant: the in-scatter kernel needs more than two groups
inScatterAboveTwo(c) == c.num_groups > 2

\* line 135
inScatterWanted(c) == c.num_groups # 1

\* lines 125-142
kernelCalls(c, t, op, var_name, all_var_names) ==
  IF t = "add_kernel"
    THEN Seq1(timeDerivativeWanted(c), addNtKernel(c, op, var_name, "NtTimeDerivative", all_var_names))
         \o <<addNtKernel(c, op, var_name, "GroupDiffusion", all_var_names)>>
         \o <<addNtKernel(c, op, var_name, "SigmaR", all_var_names)>>
         \o Seq1(inScatterWanted(c), addNtKernel(c, op, var_name, "InScatter", all_var_names))
         \o <<addCoupledFissionKernel(c, op, var_name, all_var_names)>>
         \o Seq1(c.account_delayed, addDelayedNeutronSource(c, op, var_name))
    ELSE <<>>

\* mutant: the list is tested for emptiness instead of for being set
vacuumWantedNonEmpty(c) == c.vacuum_boundaries # <<>>

\* line 146
vacuumWanted(c) == isParamValid(c, "vacuum_boundaries")

\* lines 144-159
bcCalls(c, t, var_name) ==
  Seq1(t = "add_bc" /\ vacuumWanted(c),
       Call("BoundaryCondition", "VacuumConcBC", "VacuumConcBC_" \o var_name,
            SetIf([boundary |-> c.vacuum_boundaries, variable |-> var_name,
                   vacuum_bc_type |-> c.vacuum_bc_type],
                  isParamValid(c, "use_exp_form"), "use_exp_form", c.use_exp_form)))

\* mutant: the restart test reads the flag of the app instead of the parameter
icBranchFromAppFlag(c, t) == t = "add_ic" /\ ~exodusFileRestart

\* line 161
icBranch(c, t) == t = "add_ic" /\ ~c.init_nts_from_file

\* mutant: the conflict is raised outside the init_nts_from_file test
icErrorIgnoringRestart(c, t) ==
  t = "add_ic" /\ c.jac_test /\ isParamValid(c, "nt_ic_function")

\* lines 163-165: the mooseError of the initial-condition branch
icError(c, t) == icBranch(c, t) /\ c.jac_test /\ isParamValid(c, "nt_ic_function")

\* mutant: the two constant values swapped
constantICValueSwapped(c) == IF c.use_exp_form THEN 1 ELSE 0

\* lines 198-201
constantICValue(c) == IF c.use_exp_form THEN 0 ELSE 1

\* lines 166-205
icCalls(c, t, var_name) ==
  LET p0 == SetIf([variable |-> var_name], isParamValid(c, "block"), "block", c.block)
  IN  IF ~icBranch(c, t) THEN <<>>
      ELSE IF c.jac_test
        THEN <<Call("InitialCondition", "RandomIC", "RandomIC_" \o var_name,
                    [min |-> 0, max |-> 1] @@ p0)>>
      ELSE IF isParamValid(c, "nt_ic_function")
        THEN <<Call("InitialCondition", "FunctionIC", "FunctionIC_" \o var_name,
                    [function |-> c.nt_ic_function] @@ p0)>>
      ELSE <<Call("InitialCondition", "ConstantIC", "ConstantIC_" \o var_name,
                  [value |-> constantICValue(c)] @@ p0)>>

\* mutant: another suffix
auxVarNameLog(var_name) == var_name \o "_log"

\* line 210
auxVarName(var_name) == var_name \o "_lin"

\* lines 208-234
auxCalls(c, t, var_name) ==
  LET aux_var_name == auxVarName(var_name)
      blocks == getSubdomainIDs(c)
  IN  IF ~c.use_exp_form THEN <<>>
      ELSE Seq1(t = "add_aux_variable",
                Call("AuxVariable", "FIRST_LAGRANGE", aux_var_name,
                     SetIf(NoParams, blocks # <<>>, "blocks", blocks)))
           \o Seq1(t = "add_aux_kernel",
                   Call("AuxKernel", "Density", "Density_" \o aux_var_name,
                        SetIf([variable |-> aux_var_name, density_log |-> <<var_name>>],
                              isParamValid(c, "block"), "block", c.block)))

\* lines 97-235, one pass of the loop body; error: the pass ended in mooseError
groupIteration(c, t, op, all_var_names) ==
  LET var_name == varName(c, op)
      before == copyGroupCalls(c, t, var_name) \o variableCalls(c, t, var_name)
                \o kernelCalls(c, t, op, var_name, all_var_names)
                \o bcCalls(c, t, var_name)
  IN  IF icError(c, t)
        THEN [calls |-> before, restart |-> restartGroup(c, t), error |-> TRUE]
        ELSE [calls |-> before \o icCalls(c, t, var_name) \o auxCalls(c, t, var_name),
              restart |-> restartGroup(c, t), error |-> FALSE]

RECURSIVE groupLoop(_, _, _, _)
groupLoop(c, t, op, all_var_names) ==
  IF op > c.num_groups
    THEN [calls |-> <<>>, restart |-> FALSE, error |-> FALSE]
    ELSE LET it == groupIteration(c, t, op, all_var_names)
         IN  IF it.error THEN it
             ELSE LET rest == groupLoop(c, t, op + 1, all_var_names)
                  IN  [calls |-> it.calls \o rest.calls,
                       restart |-> it.restart \/ rest.restart,
                       error |-> rest.error]

\* lines 237-268
temperaturePart(c, t) ==
  LET temp_var == "temp"
      family == IF c.dg_for_temperature THEN "L2_LAGRANGE" ELSE "LAGRANGE"
      scaling == IF isParamValid(c, "temp_scaling") THEN c.temp_scaling ELSE 1
  IN  IF ~c.create_temperature_var
        THEN [calls |-> <<>>, restart |-> FALSE, error |-> FALSE]
        ELSE [calls |->
                Seq1(c.init_temperature_from_file /\ t = "copy_nodal_vars",
                     [table |-> "VariableToCopy", dest |-> temp_var, source |-> temp_var,
                      timestep |-> "LATEST"])
                \o Seq1(t = "add_variable",
                        Call("Variable", "MooseVariable", temp_var,
                             [order |-> "FIRST", family |-> family,
                              scaling |-> <<scaling>>])),
              restart |-> c.init_temperature_from_file /\ t = "check_copy_nodal_vars",
              error |-> FALSE]

\* NtAction::act() with _current_task = t
act(c, t) ==
  LET loop == groupLoop(c, t, 1, allVarNames(c))
      temp == temperaturePart(c, t)
  IN  IF loop.error THEN loop
      ELSE [calls |-> loop.calls \o temp.calls,
            restart |-> loop.restart \/ temp.restart,
            error |-> FALSE]

----------------------------------------------------------------------------
(* The state machine *)

\* mutant: the constructor looks at pre_blocks instead of pre_concs
constructorErrorPreBlocks(c) == ~isParamValid(c, "pre_blocks") /\ c.account_delayed

\* lines 86-87: the condition of the constructor's mooseError
constructorError(c) == ~isParamValid(c, "pre_concs") /\ c.account_delayed

InTable(calls, table) == SelectSeq(calls, LAMBDA d : d.table = table)

NoTask == "none"

Init ==
  /\ cfg \in Configs
  /\ pc = "new"
  /\ task = NoTask
  /\ emitted = <<>>
  /\ variables = <<>>
  /\ kernels = <<>>
  /\ bcs = <<>>
  /\ ics = <<>>
  /\ auxVariables = <<>>
  /\ auxKernels = <<>>
  /\ varsToCopy = <<>>
  /\ exodusFileRestart = FALSE
  /\ invocations = 0
  /\ invoked = {}
  /\ pristine = [t \in Tasks |-> act(cfg, t).calls]

\* NtAction::NtAction
Construct ==
  /\ pc = "new"
  /\ pc' = IF constructorError(cfg) THEN "failed" ELSE "ready"
  /\ UNCHANGED <<cfg, task, emitted, tables, exodusFileRestart, invocations, invoked,
                 pristine>>

\* the host sets _current_task = t and calls act()
Act(t) ==
  /\ pc = "ready"
  /\ invocations < MaxInvocations
  /\ LET r == act(cfg, t)
     IN  /\ task' = t
         /\ emitted' = r.calls
         /\ variables' = variables \o InTable(r.calls, "Variable")
         /\ kernels' = kernels \o InTable(r.calls, "Kernel")
         /\ bcs' = bcs \o InTable(r.calls, "BoundaryCondition")
         /\ ics' = ics \o InTable(r.calls, "InitialCondition")
         /\ auxVariables' = auxVariables \o InTable(r.calls, "AuxVariable")
         /\ auxKernels' = auxKernels \o InTable(r.calls, "AuxKernel")
         /\ varsToCopy' = varsToCopy \o InTable(r.calls, "VariableToCopy")
         /\ exodusFileRestart' = (r.restart \/ exodusFileRestart)
         /\ pc' = IF r.error THEN "aborted" ELSE "ready"
  /\ invocations' = invocations + 1
  /\ invoked' = invoked \cup {t}
  /\ UNCHANGED <<cfg, pristine>>

ActAddKernel == Act("add_kernel")

ActAddBC == Act("add_bc")

ActAddVariable == Act("add_variable")

ActAddIC == Act("add_ic")

ActAddAuxVariable == Act("add_aux_variable")

ActAddAuxKernel == Act("add_aux_kernel")

ActCheckCopyNodalVars == Act("check_copy_nodal_vars")

ActCopyNodalVars == Act("copy_nodal_vars")

Next ==
  \/ Construct
  \/ ActAddKernel
  \/ ActAddBC
  \/ ActAddVariable
  \/ ActAddIC
  \/ ActAddAuxVariable
  \/ ActAddAuxKernel
  \/ ActCheckCopyNodalVars
  \/ ActCopyNodalVars

Spec == Init /\ [][Next]_vars

----------------------------------------------------------------------------
(* Expected values, written out independently of the model's operators *)

ExpectedDecimal == <<"1", "2", "3", "4", "5", "6", "7", "8", "9", "10", "11", "12">>

ExpectedName(i) == cfg.var_name_base \o ExpectedDecimal[i]

ExpectedNames == [i \in 1..cfg.num_groups |-> ExpectedName(i)]

Names(calls) == [i \in 1..Len(calls) |-> calls[i].name]

OfType(calls, type) == SelectSeq(calls, LAMBDA d : d.type = type)

AllInTable(calls, table) == \A i \in 1..Len(calls) : calls[i].table = table

----------------------------------------------------------------------------
(* C1 *)

\* C1 as stated: an add_variable invocation emits exactly num_groups variable
\* descriptors, named base1 .. baseN in ascending order.
C1_ExactlyNVariables ==
  (task = "add_variable") =>
    /\ Len(emitted) = cfg.num_groups
    /\ Names(emitted) = ExpectedNames

\* C1 amended: an add_variable invocation emits the num_groups group variables
\* base1 .. baseN in ascending order, followed by the variable "temp" exactly
\* when create_temperature_var is true.
C1_GroupVariablesThenTemp ==
  (task = "add_variable") =>
    /\ AllInTable(emitted, "Variable")
    /\ Len(emitted) = cfg.num_groups + (IF cfg.create_temperature_var THEN 1 ELSE 0)
    /\ \A i \in 1..cfg.num_groups : emitted[i].name = ExpectedName(i)
    /\ cfg.create_temperature_var => emitted[cfg.num_groups + 1].name = "temp"

C1_Witness ==
  /\ task = "add_variable"
  /\ cfg.num_groups = ManyGroups
  /\ cfg.create_temperature_var
  /\ Len(emitted) = ManyGroups + 1

----------------------------------------------------------------------------
(* C2 *)

\* C2: with account_delayed = true and pre_concs unset the constructor fails,
\* whatever the other parameters, and no task invocation or host call ever
\* follows; in every other case construction does not fail.
C2_ConstructionFailsFast ==
  LET bad == cfg.account_delayed /\ "pre_concs" \notin cfg.valid
  IN  /\ bad => /\ pc \in {"new", "failed"}
                /\ invocations = 0
                /\ task = NoTask
                /\ emitted = <<>>
                /\ tables = <<<<>>, <<>>, <<>>, <<>>, <<>>, <<>>, <<>>>>
                /\ ~exodusFileRestart
      /\ ~bad => pc # "failed"

C2_Witness ==
  /\ pc = "failed"
  /\ cfg.account_delayed
  /\ "pre_concs" \notin cfg.valid
  /\ cfg.num_groups = MaxGroups
  /\ "vacuum_boundaries" \in cfg.valid

----------------------------------------------------------------------------
(* C3 *)

\* C3 as stated: with jac_test = true and nt_ic_function set, an add_ic
\* invocation fails and registers no initial condition (taken on the
\* configurations that have at least one group).
C3_ConflictAlwaysFails ==
  (task = "add_ic" /\ cfg.jac_test /\ "nt_ic_function" \in cfg.valid
     /\ cfg.num_groups >= 1) =>
    /\ pc = "aborted"
    /\ emitted = <<>>
    /\ ics = <<>>

\* C3 amended: with jac_test = true and nt_ic_function set, an add_ic invocation
\* registers no initial condition, and it fails exactly when init_nts_from_file
\* is false and num_groups >= 1 (otherwise the conflict is never looked at).
C3_ConflictFailsUnlessSkipped ==
  (task = "add_ic" /\ cfg.jac_test /\ "nt_ic_function" \in cfg.valid) =>
    /\ emitted = <<>>
    /\ ics = <<>>
    /\ (pc = "aborted") = (~cfg.init_nts_from_file /\ cfg.num_groups >= 1)

C3_Witness ==
  /\ task = "add_ic"
  /\ cfg.jac_test
  /\ "nt_ic_function" \in cfg.valid
  /\ ~cfg.init_nts_from_file
  /\ cfg.num_groups = MaxGroups
  /\ pc = "aborted"
  /\ invocations = 2

----------------------------------------------------------------------------
(* C4 *)

\* what add_kernel emits for the configuration that differs only in eigen = false
NonEigenKernels == act([cfg EXCEPT !.eigen = FALSE], "add_kernel").calls

WithoutTimeDerivative(calls) == SelectSeq(calls, LAMBDA d : d.type # "NtTimeDerivative")

EigenTagged(calls) ==
  [i \in 1..Len(calls) |->
     IF calls[i].type = "CoupledFissionKernel"
       THEN [calls[i] EXCEPT !.params = ("extra_vector_tags" :> <<"eigen">>) @@ @]
       ELSE calls[i]]

\* C4 as stated: the add_kernel output with eigen = true is the output with
\* eigen = false without the NtTimeDerivative descriptors, all else unchanged.
C4_OnlyTimeDerivativeRemoved ==
  (task = "add_kernel" /\ cfg.eigen) => emitted = WithoutTimeDerivative(NonEigenKernels)

\* C4 amended: the add_kernel output with eigen = true is the output with
\* eigen = false without the NtTimeDerivative descriptor of every group and with
\* extra_vector_tags = {"eigen"} added to every CoupledFissionKernel descriptor.
C4_TimeDerivativeRemovedFissionTagged ==
  (task = "add_kernel" /\ cfg.eigen) =>
    /\ emitted = EigenTagged(WithoutTimeDerivative(NonEigenKernels))
    /\ Len(emitted) = Len(NonEigenKernels) - cfg.num_groups
    /\ Len(OfType(NonEigenKernels, "NtTimeDerivative")) = cfg.num_groups

C4_Witness ==
  /\ task = "add_kernel"
  /\ cfg.eigen
  /\ cfg.num_groups = MaxGroups
  /\ cfg.account_delayed
  /\ Len(emitted) = 5 * MaxGroups

----------------------------------------------------------------------------
(* C5 *)

\* C5: add_kernel emits no InScatter kernel when num_groups = 1; when
\* num_groups >= 2 it emits one InScatter kernel per group, carrying the group's
\* group_number, num_groups and all group variable names, ascending, as group_fluxes.
C5_InScatterPerGroup ==
  (task = "add_kernel") =>
    LET ins == OfType(emitted, "InScatter")
    IN  /\ cfg.num_groups = 1 => ins = <<>>
        /\ cfg.num_groups >= 2 =>
             /\ Len(ins) = cfg.num_groups
             /\ \A i \in 1..cfg.num_groups :
                  /\ ins[i].table = "Kernel"
                  /\ ins[i].params.variable = ExpectedName(i)
                  /\ ins[i].params.group_number = i
                  /\ ins[i].params.num_groups = cfg.num_groups
                  /\ ins[i].params.group_fluxes = ExpectedNames

C5_Witness ==
  /\ task = "add_kernel"
  /\ cfg.num_groups = ManyGroups
  /\ Len(OfType(emitted, "InScatter")) = ManyGroups

----------------------------------------------------------------------------
(* C6 *)

\* C6 as stated: once check_copy_nodal_vars has been invoked with
\* init_nts_from_file or init_temperature_from_file set, the restart flag is set
\* (and stays set), whatever the other parameters, and the invocation emits no
\* descriptor (taken on the configurations that have at least one group).
C6_AnyRestoreFlagSignals ==
  /\ (task = "check_copy_nodal_vars") => emitted = <<>>
  /\ ("check_copy_nodal_vars" \in invoked /\ cfg.num_groups >= 1
        /\ (cfg.init_nts_from_file \/ cfg.init_temperature_from_file))
       => exodusFileRestart

\* C6 amended: a check_copy_nodal_vars invocation emits no descriptor, and the
\* restart flag is set, and stays set, exactly once the task has been invoked
\* with init_nts_from_file set and num_groups >= 1, or with
\* init_temperature_from_file and create_temperature_var both set.
C6_RestartSignalled ==
  LET restore == \/ cfg.init_nts_from_file /\ cfg.num_groups >= 1
                 \/ cfg.init_temperature_from_file /\ cfg.create_temperature_var
  IN  /\ (task = "check_copy_nodal_vars") => emitted = <<>>
      /\ exodusFileRestart = ("check_copy_nodal_vars" \in invoked /\ restore)

C6_Witness ==
  /\ task = "check_copy_nodal_vars"
  /\ invocations = 2
  /\ invoked = {"check_copy_nodal_vars"}
  /\ cfg.init_temperature_from_file
  /\ cfg.create_temperature_var
  /\ ~cfg.init_nts_from_file
  /\ exodusFileRestart

----------------------------------------------------------------------------
(* C7 *)

ExpectedICType ==
  IF cfg.jac_test THEN "RandomIC"
  ELSE IF "nt_ic_function" \in cfg.valid THEN "FunctionIC"
  ELSE "ConstantIC"

ExpectedICs(calls) ==
  /\ Len(calls) = cfg.num_groups
  /\ \A i \in 1..cfg.num_groups :
       /\ calls[i].table = "InitialCondition"
       /\ calls[i].type = ExpectedICType
       /\ calls[i].name = ExpectedICType \o "_" \o ExpectedName(i)
       /\ calls[i].params.variable = ExpectedName(i)
       /\ (ExpectedICType = "ConstantIC") =>
            calls[i].params.value = (IF cfg.use_exp_form THEN 0 ELSE 1)

\* C7 as stated: unless init_nts_from_file, add_ic emits one initial condition
\* per group: RandomIC when jac_test, else FunctionIC when nt_ic_function is set,
\* else ConstantIC with value 0 (use_exp_form) or 1; with init_nts_from_file none.
C7_OneICPerGroup ==
  (task = "add_ic") =>
    IF cfg.init_nts_from_file THEN emitted = <<>> ELSE ExpectedICs(emitted)

\* C7 amended: as stated, except that RandomIC is emitted when jac_test is true
\* and nt_ic_function is unset; when both are set (and not init_nts_from_file)
\* the invocation emits no initial condition.
C7_OneICPerGroupUnlessConflict ==
  (task = "add_ic") =>
    IF cfg.init_nts_from_file \/ (cfg.jac_test /\ "nt_ic_function" \in cfg.valid)
      THEN emitted = <<>>
      ELSE ExpectedICs(emitted)

C7_Witness ==
  /\ task = "add_ic"
  /\ ~cfg.init_nts_from_file
  /\ ~cfg.jac_test
  /\ "nt_ic_function" \notin cfg.valid
  /\ cfg.use_exp_form
  /\ cfg.num_groups = MaxGroups
  /\ Len(emitted) = MaxGroups

----------------------------------------------------------------------------
(* C8 *)

\* C8: with use_exp_form = true, add_aux_variable emits the num_groups aux
\* variables variableName(i)_lin and add_aux_kernel the num_groups Density aux
\* kernels pairing variableName(i)_lin with density_log = variableName(i); with
\* use_exp_form = false both emit nothing.
C8_AuxPerGroup ==
  /\ (task = "add_aux_variable") =>
       IF cfg.use_exp_form
         THEN /\ Len(emitted) = cfg.num_groups
              /\ \A i \in 1..cfg.num_groups :
                   /\ emitted[i].table = "AuxVariable"
                   /\ emitted[i].name = ExpectedName(i) \o "_lin"
         ELSE emitted = <<>>
  /\ (task = "add_aux_kernel") =>
       IF cfg.use_exp_form
         THEN /\ Len(emitted) = cfg.num_groups
              /\ \A i \in 1..cfg.num_groups :
                   /\ emitted[i].table = "AuxKernel"
                   /\ emitted[i].type = "Density"
                   /\ emitted[i].params.variable = ExpectedName(i) \o "_lin"
                   /\ emitted[i].params.density_log = <<ExpectedName(i)>>
         ELSE emitted = <<>>

C8_Witness ==
  /\ task = "add_aux_kernel"
  /\ "add_aux_variable" \in invoked
  /\ cfg.use_exp_form
  /\ cfg.num_groups = MaxGroups
  /\ Len(auxVariables) = MaxGroups
  /\ Len(auxKernels) = MaxGroups

----------------------------------------------------------------------------
(* C9 *)

ExpectedBCs(calls) ==
  /\ Len(calls) = cfg.num_groups
  /\ \A i \in 1..cfg.num_groups :
       /\ calls[i].table = "BoundaryCondition"
       /\ calls[i].type = "VacuumConcBC"
       /\ calls[i].name = "VacuumConcBC_" \o ExpectedName(i)
       /\ calls[i].params.boundary = cfg.vacuum_boundaries
       /\ calls[i].params.variable = ExpectedName(i)
       /\ calls[i].params.vacuum_bc_type = cfg.vacuum_bc_type
       /\ calls[i].params.vacuum_bc_type \in {"marshak", "mark", "milne"}

\* C9 as stated: add_bc emits one VacuumConcBC per group when the vacuum
\* boundary list is non-empty, and no boundary condition otherwise.
C9_BCWhenListNonEmpty ==
  (task = "add_bc") =>
    IF cfg.vacuum_boundaries # <<>> THEN ExpectedBCs(emitted) ELSE emitted = <<>>

\* C9 amended: add_bc emits one VacuumConcBC per group when vacuum_boundaries is
\* set, be the list empty or not, and no boundary condition when it is unset.
C9_BCWhenListSet ==
  (task = "add_bc") =>
    IF "vacuum_boundaries" \in cfg.valid THEN ExpectedBCs(emitted) ELSE emitted = <<>>

C9_Witness ==
  /\ task = "add_bc"
  /\ cfg.vacuum_boundaries # <<>>
  /\ cfg.vacuum_bc_type = "milne"
  /\ cfg.num_groups = MaxGroups
  /\ Len(emitted) = MaxGroups

----------------------------------------------------------------------------
(* C10 *)

\* the host table the calls of a task land in
OwnTable ==
  [t \in Tasks |->
     CASE t = "add_variable" -> "Variable"
       [] t = "add_kernel" -> "Kernel"
       [] t = "add_bc" -> "BoundaryCondition"
       [] t = "add_ic" -> "InitialCondition"
       [] t = "add_aux_variable" -> "AuxVariable"
       [] t = "add_aux_kernel" -> "AuxKernel"
       [] t = "copy_nodal_vars" -> "VariableToCopy"
       [] t = "check_copy_nodal_vars" -> "RestartFlag"]

TableByName ==
  [Variable |-> variables, Kernel |-> kernels, BoundaryCondition |-> bcs,
   InitialCondition |-> ics, AuxVariable |-> auxVariables, AuxKernel |-> auxKernels,
   VariableToCopy |-> varsToCopy]

C10_Step ==
  (invocations' = invocations + 1) =>
    /\ AllInTable(emitted', OwnTable[task'])
    /\ \A n \in DOMAIN TableByName :
         TableByName'[n] = IF n = OwnTable[task'] THEN TableByName[n] \o emitted'
                           ELSE TableByName[n]
    /\ (task' # "check_copy_nodal_vars") => (exodusFileRestart' = exodusFileRestart)
    /\ emitted' = pristine[task']

\* C10: every act() invocation emits only descriptors of its task's own table,
\* appends them there and leaves every other table (and, but for
\* check_copy_nodal_vars, the restart flag) unchanged; what it emits is what the
\* task emits on the untouched host, whatever was invoked before.
C10_TaskFrame == [][C10_Step]_vars

C10_Witness ==
  /\ invocations = 2
  /\ task = "add_variable"
  /\ "add_kernel" \in invoked
  /\ kernels # <<>>
  /\ emitted # <<>>
  /\ variables = emitted

====
